---------------------------- MODULE Spec2Model ----------------------------
(***************************************************************************)
(* A model of the mini-issue-tracker backend (FastAPI + SQLAlchemy):       *)
(* registration and login, bearer-token authentication, and the project    *)
(* and issue services with their ownership checks.                         *)
(*                                                                         *)
(* The database is one record `db` holding the three tables and the        *)
(* primary-key sequences.  Every service method is an operator that maps   *)
(* the database and the request to the HTTP outcome and the database after *)
(* the call; every route is an action that applies the authentication      *)
(* dependency and the service operator and stores the outcome in `resp`.   *)
(* Time is counted in whole seconds, as python-jose does for `exp`.        *)
(***************************************************************************)
EXTENDS Integers, Sequences, FiniteSets, TLC

VARIABLES db,     \* the tables users, projects, issues and their id sequences
          now,    \* the server clock, in seconds
          resp,   \* the response to the last request
          lab,    \* the token handler exercised on its own (SpecToken)
          calls   \* the requests in flight together (SpecRace)

vars == <<db, now, resp, lab, calls>>

----------------------------------------------------------------------------
(* Bounds of the model.                                                    *)

NumEmails == 2
NumPasswords == 2
NumSalts == 1
MaxProjects == 2
MaxIssues == 2
MaxTicks == 4
MaxDelay == 1
NumTails == 2
NumDraws == 3
MaxHashes == 3
NumRequests == 2

Emails == 1..NumEmails
\* A plaintext password is its first 72 bytes (head) and what follows them
\* (tail, 0 when nothing does): bcrypt reads the first 72 bytes of its input
\* and passlib's bcrypt handler truncates silently (truncate_error is off).
Plaintext(head, tail) == [head |-> head, tail |-> tail]

\* The passwords the requests of the model carry: of at most 72 bytes.
Passwords == {Plaintext(head, 0) : head \in 1..NumPasswords}
Salts == 1..NumSalts

----------------------------------------------------------------------------
(* Values.                                                                 *)

\* Python's None where a record (a row, a payload, a timedelta) is expected.
None == [none |-> TRUE]

\* SQL NULL / Python None in a string-valued column or payload field.
NULL == "<null>"

\* SQL NULL in a timestamp column (Project.updated_at has no server default).
NullTime == -1

IssueStatus == {"Open", "In Progress", "Closed"}
IssuePriority == {"Low", "Medium", "High"}

HTTP_200_OK == 200
HTTP_201_CREATED == 201
HTTP_204_NO_CONTENT == 204
HTTP_401_UNAUTHORIZED == 401
HTTP_403_FORBIDDEN == 403
HTTP_404_NOT_FOUND == 404
HTTP_409_CONFLICT == 409
HTTP_500_INTERNAL_SERVER_ERROR == 500

SECRET_KEY == "your-super-secret-key-change-in-production"
ALGORITHM == "HS256"
ACCESS_TOKEN_EXPIRE_MINUTES == 30
SecondsPerMinute == 60

\* A key the server does not hold.
OtherKey == "some-other-key"

----------------------------------------------------------------------------
(* Outcomes of a call: the HTTP status, the detail string of a raised      *)
(* HTTPException, the response body, and the database after the call.      *)

NoBody == [empty |-> TRUE]

Raise(status, detail, d) ==
    [status |-> status, detail |-> detail, body |-> NoBody, db |-> d]

Return(status, body, d) ==
    [status |-> status, detail |-> "", body |-> body, db |-> d]

NotFoundException(detail, d) == Raise(HTTP_404_NOT_FOUND, detail, d)
UnauthorizedException(detail, d) == Raise(HTTP_401_UNAUTHORIZED, detail, d)
ForbiddenException(detail, d) == Raise(HTTP_403_FORBIDDEN, detail, d)
ConflictException(detail, d) == Raise(HTTP_409_CONFLICT, detail, d)

\* An exception that is no HTTPException (AttributeError on None,
\* IntegrityError, StaleDataError) reaches the client as a 500; the session
\* is closed without a commit, so nothing of the call is stored.
ServerError(d) == Raise(HTTP_500_INTERNAL_SERVER_ERROR, "Internal Server Error", d)

----------------------------------------------------------------------------
(* Credential store: passlib's bcrypt context.  A digest embeds its salt;  *)
(* verify recomputes the digest of the candidate under the embedded salt. *)
(* bcrypt itself is modelled as an injective function of salt and the      *)
(* first 72 bytes of the password.                                         *)

bcrypt(salt, password) == <<salt, password.head>>

hash(plain_password, salt) ==
    [salt |-> salt, checksum |-> bcrypt(salt, plain_password)]

\* verify of a digest the context identifies as bcrypt.
verify(plain_password, hashed_password) ==
    hashed_password.checksum = bcrypt(hashed_password.salt, plain_password)

\* A stored string that is no digest of any scheme of the context.
UnknownDigest == [raw |-> "not-a-hash"]

\* CryptContext identifies the scheme of a digest before it verifies;
\* CryptContext.verify raises UnknownHashError for a digest it cannot
\* identify, and PasswordHandler.verify passes the exception on.
identify(hashed_password) == "checksum" \in DOMAIN hashed_password

----------------------------------------------------------------------------
(* Token handler: python-jose's HS256 JWT.  A token is its header, its     *)
(* payload and the MAC of both under the signing key; the MAC is modelled  *)
(* as an injective function of key, header and payload.  A string that is  *)
(* no JWT at all is the record Malformed.                                  *)

Timedelta(seconds) == [seconds |-> seconds]

HMAC(key, header, payload) == [key |-> key, header |-> header, payload |-> payload]

jwt_encode(payload, key, algorithm) ==
    LET header == [alg |-> algorithm, typ |-> "JWT"]
    IN  [header |-> header, payload |-> payload,
         signature |-> HMAC(key, header, payload)]

Malformed == [raw |-> "not-a-jwt"]

\* TokenHandler.create_token at time t.  `if expires_delta:` is false for
\* None and for timedelta(0); jose stores exp in whole seconds.
create_token(data, expires_delta, t) ==
    LET expire == IF expires_delta # None /\ expires_delta.seconds # 0
                  THEN t + expires_delta.seconds
                  ELSE t + ACCESS_TOKEN_EXPIRE_MINUTES * SecondsPerMinute
        to_encode == [k \in (DOMAIN data) \cup {"exp"} |->
                         IF k = "exp" THEN expire ELSE data[k]]
    IN  jwt_encode(to_encode, SECRET_KEY, ALGORITHM)

\* A decode that reads the payload without verifying the signature, as
\* jose does under options={"verify_signature": False}.
jwt_decode_unverified(token, key, algorithm, t) ==
    IF "payload" \notin DOMAIN token
    THEN [raised |-> "JWTError"]
    ELSE IF "exp" \in DOMAIN token.payload /\ token.payload.exp < t
    THEN [raised |-> "ExpiredSignatureError"]
    ELSE token.payload

\* jose.jwt.decode(token, key, algorithms=[algorithm]) at time t: the
\* payload, or the name of the exception it raises.  JWSError is re-raised
\* as JWTError; ExpiredSignatureError is a JWTError and is raised when
\* exp < now (jose's _validate_exp).
jwt_decode(token, key, algorithm, t) ==
    IF "signature" \notin DOMAIN token
    THEN [raised |-> "JWTError"]
    ELSE IF token.header.alg # algorithm
    THEN [raised |-> "JWTError"]
    ELSE IF token.signature # HMAC(key, token.header, token.payload)
    THEN [raised |-> "JWTError"]
    ELSE IF "exp" \in DOMAIN token.payload /\ token.payload.exp < t
    THEN [raised |-> "ExpiredSignatureError"]
    ELSE token.payload

JWTErrors == {"JWTError", "ExpiredSignatureError", "JWTClaimsError"}

\* TokenHandler.decode_token: the payload, None when jose raised a
\* JWTError, and the exception itself otherwise.
decode_token(token, t) ==
    LET payload == jwt_decode(token, SECRET_KEY, ALGORITHM, t)
    IN  IF "raised" \notin DOMAIN payload THEN payload
        ELSE IF payload.raised \in JWTErrors THEN None
        ELSE payload

----------------------------------------------------------------------------
(* Persistence gateway: the repositories over the three tables.            *)

EmptyTable == [id \in {} |-> None]

EmptyDb ==
    [users |-> EmptyTable, projects |-> EmptyTable, issues |-> EmptyTable,
     seq |-> [users |-> 1, projects |-> 1, issues |-> 1]]

\* BaseRepository.get_by_id: the row, or None.
get_by_id(d, model, id) ==
    IF id \in DOMAIN d[model] THEN d[model][id] ELSE None

\* UserRepository.get_by_email: the first row with that email, or None.
get_by_email(d, email) ==
    LET found == {id \in DOMAIN d.users : d.users[id].email = email}
    IN  IF found = {} THEN None
        ELSE d.users[CHOOSE id \in found : \A other \in found : id <= other]

\* A schema without the foreign keys: only users.email is constrained.
InsertAllowed_no_foreign_key(d, model, row) ==
    model = "users" => \A id \in DOMAIN d.users : d.users[id].email # row.email

\* The database's own constraints on an INSERT: users.email is unique, and
\* the foreign keys of projects and issues refer to stored rows.
InsertAllowed(d, model, row) ==
    CASE model = "users" ->
           \A id \in DOMAIN d.users : d.users[id].email # row.email
      [] model = "projects" ->
           row.created_by \in DOMAIN d.users
      [] model = "issues" ->
           /\ row.project_id \in DOMAIN d.projects
           /\ row.created_by \in DOMAIN d.users

\* BaseRepository.create at time t: the row gets the next id of its
\* sequence and the server defaults; commit; refresh.  The result is the
\* row and the database, or None as the row when the INSERT is refused
\* (IntegrityError).
create(d, model, obj_in, t) ==
    LET id == d.seq[model]
        defaults == IF model = "issues"
                    THEN [id |-> id, created_at |-> t, updated_at |-> t]
                    ELSE [id |-> id, created_at |-> t, updated_at |-> NullTime]
        row == [k \in (DOMAIN obj_in) \cup (DOMAIN defaults) |->
                   IF k \in DOMAIN defaults THEN defaults[k] ELSE obj_in[k]]
    IN  IF InsertAllowed(d, model, row)
        THEN [row |-> row,
              db |-> [d EXCEPT ![model] = (id :> row) @@ d[model],
                               !.seq[model] = id + 1]]
        ELSE [row |-> None, db |-> d]

\* An update that writes the whole entity: a column the payload does not
\* name is written as NULL.
update_overwriting(d, model, db_obj, obj_in, t) ==
    LET kept == {"id", "project_id", "created_by", "created_at", "updated_at",
                 "email", "hashed_password"}
        row == [k \in DOMAIN db_obj |->
                   IF k \in DOMAIN obj_in /\ obj_in[k] # NULL THEN obj_in[k]
                   ELSE IF k = "updated_at" THEN t
                   ELSE IF k \in kept THEN db_obj[k]
                   ELSE NULL]
    IN  IF db_obj.id \in DOMAIN d[model]
        THEN [row |-> row, db |-> [d EXCEPT ![model][db_obj.id] = row]]
        ELSE [row |-> None, db |-> d]

\* An update that stamps updated_at itself on every call.
update_touching(d, model, db_obj, obj_in, t) ==
    LET applied == {f \in DOMAIN obj_in : obj_in[f] # NULL}
        row == [k \in DOMAIN db_obj |->
                   IF k \in applied THEN obj_in[k]
                   ELSE IF k = "updated_at" THEN t
                   ELSE db_obj[k]]
    IN  IF db_obj.id \in DOMAIN d[model]
        THEN [row |-> row, db |-> [d EXCEPT ![model][db_obj.id] = row]]
        ELSE [row |-> None, db |-> d]

\* BaseRepository.update at time t: every field of obj_in whose value is
\* not None is set on the loaded object db_obj; commit; refresh.  The UPDATE
\* is emitted, and with it onupdate=now() for updated_at, only when an
\* attribute got a value other than the loaded one, and it writes those
\* columns only; refresh reads the row as it is stored then.  When the row
\* is gone the UPDATE matches no row (StaleDataError) or the refresh finds
\* none (InvalidRequestError): the result is None as the row.  NULL is the
\* None of a string field; a value of an id column is an integer, never None.
update(d, model, db_obj, obj_in, t) ==
    LET applied == {f \in DOMAIN obj_in :
                       f \in {"project_id", "created_by"} \/ obj_in[f] # NULL}
        written == {f \in applied : obj_in[f] # db_obj[f]}
        changed == written # {}
        row == [k \in DOMAIN db_obj |->
                   IF k \in written THEN obj_in[k]
                   ELSE IF k = "updated_at" /\ changed THEN t
                   ELSE d[model][db_obj.id][k]]
    IN  IF db_obj.id \in DOMAIN d[model]
        THEN [row |-> row, db |-> [d EXCEPT ![model][db_obj.id] = row]]
        ELSE [row |-> None, db |-> d]

\* A relationship without the cascade: deleting a project removes the
\* project row only.
CascadedIssues_none(d, model, id) == {}

\* The issues an ORM delete of a row removes besides the row itself:
\* Project.issues is cascade="all, delete-orphan".
CascadedIssues(d, model, id) ==
    IF model = "projects"
    THEN {i \in DOMAIN d.issues : d.issues[i].project_id = id}
    ELSE {}

Remove(table, ids) == [id \in (DOMAIN table) \ ids |-> table[id]]

\* BaseRepository.delete: TRUE and the row (with its cascade) removed, or
\* FALSE when no row has that id.
delete(d, model, id) ==
    IF id \in DOMAIN d[model]
    THEN LET d1 == [d EXCEPT !.issues = Remove(d.issues, CascadedIssues(d, model, id))]
         IN  [deleted |-> TRUE, db |-> [d1 EXCEPT ![model] = Remove(d1[model], {id})]]
    ELSE [deleted |-> FALSE, db |-> d]

\* The generic get_all in place of the query by created_by.
repo_get_all_projects(d, user_id) == DOMAIN d.projects

\* ProjectRepository.get_user_projects.
repo_get_user_projects(d, user_id) ==
    {p \in DOMAIN d.projects : d.projects[p].created_by = user_id}

\* A query that applies the priority filter only when no status is given.
repo_get_project_issues_elif(d, project_id, status, priority) ==
    {i \in DOMAIN d.issues :
        /\ d.issues[i].project_id = project_id
        /\ IF status # NULL THEN d.issues[i].status = status
           ELSE priority # NULL => d.issues[i].priority = priority}

\* IssueRepository.get_project_issues: status and priority are applied when
\* truthy.
repo_get_project_issues(d, project_id, status, priority) ==
    {i \in DOMAIN d.issues :
        /\ d.issues[i].project_id = project_id
        /\ status # NULL => d.issues[i].status = status
        /\ priority # NULL => d.issues[i].priority = priority}

----------------------------------------------------------------------------
(* Response schemas (model_validate of a row).                             *)

UserResponse(user) ==
    [id |-> user.id, email |-> user.email, name |-> user.name,
     created_at |-> user.created_at]

ProjectResponse(project) == project

IssueResponse(issue) == issue

\* The body of a route with response_model=List[...]: the rows it lists.
Listing(rows) == [items |-> rows]

Token(access_token) == [access_token |-> access_token, token_type |-> "bearer"]

----------------------------------------------------------------------------
(* AuthService.                                                            *)

\* register: user_data is the validated UserCreate; salt is the fresh salt
\* bcrypt draws for this digest.
\* A registration that does not look the email up first and leaves the
\* duplicate to the unique index.
register_unchecked(d, user_data, salt, t) ==
    LET made == create(d, "users",
                       [name |-> user_data.name,
                        email |-> user_data.email,
                        hashed_password |-> hash(user_data.password, salt)], t)
    IN  IF made.row = None THEN ServerError(d)
        ELSE Return(HTTP_201_CREATED, UserResponse(made.row), made.db)

register(d, user_data, salt, t) ==
    LET existing_user == get_by_email(d, user_data.email)
    IN  IF existing_user # None
        THEN ConflictException("Email already registered", d)
        ELSE LET hashed_password == hash(user_data.password, salt)
                 made == create(d, "users",
                                [name |-> user_data.name,
                                 email |-> user_data.email,
                                 hashed_password |-> hashed_password], t)
             IN  IF made.row = None THEN ServerError(d)
                 ELSE Return(HTTP_201_CREATED, UserResponse(made.row), made.db)

\* A login that tells an unknown email from a wrong password.
login_telling(d, email, password, t) ==
    LET user == get_by_email(d, email)
    IN  IF user = None
        THEN UnauthorizedException("User not found", d)
        ELSE IF ~verify(password, user.hashed_password)
        THEN UnauthorizedException("Invalid email or password", d)
        ELSE Return(HTTP_200_OK,
                    Token(create_token([sub |-> user.email, user_id |-> user.id],
                                       Timedelta(ACCESS_TOKEN_EXPIRE_MINUTES * SecondsPerMinute),
                                       t)),
                    d)

\* A login that does not verify the password.
login_unverified(d, email, password, t) ==
    LET user == get_by_email(d, email)
    IN  IF user = None
        THEN UnauthorizedException("Invalid email or password", d)
        ELSE Return(HTTP_200_OK,
                    Token(create_token([sub |-> user.email, user_id |-> user.id],
                                       Timedelta(ACCESS_TOKEN_EXPIRE_MINUTES * SecondsPerMinute),
                                       t)),
                    d)

login(d, email, password, t) ==
    LET user == get_by_email(d, email)
    IN  IF user = None
        THEN UnauthorizedException("Invalid email or password", d)
        ELSE IF ~identify(user.hashed_password) THEN ServerError(d)
        ELSE IF ~verify(password, user.hashed_password)
        THEN UnauthorizedException("Invalid email or password", d)
        ELSE LET access_token_expires ==
                     Timedelta(ACCESS_TOKEN_EXPIRE_MINUTES * SecondsPerMinute)
                 access_token ==
                     create_token([sub |-> user.email, user_id |-> user.id],
                                  access_token_expires, t)
             IN  Return(HTTP_200_OK, Token(access_token), d)

----------------------------------------------------------------------------
(* ProjectService.                                                         *)

get_user_projects(d, user) ==
    Return(HTTP_200_OK,
           Listing({ProjectResponse(d.projects[p]) :
                       p \in repo_get_user_projects(d, user.id)}),
           d)

get_project(d, project_id, user) ==
    LET project == get_by_id(d, "projects", project_id)
    IN  IF project = None
        THEN NotFoundException("Project not found", d)
        ELSE IF project.created_by # user.id
        THEN ForbiddenException("You don't have access to this project", d)
        ELSE Return(HTTP_200_OK, ProjectResponse(project), d)

\* A create_project that records the first registered user as the owner.
create_project_as_first(d, project_data, user, t) ==
    LET first == CHOOSE id \in DOMAIN d.users : \A other \in DOMAIN d.users : id <= other
        made == create(d, "projects",
                       [name |-> project_data.name,
                        description |-> project_data.description,
                        created_by |-> first], t)
    IN  IF made.row = None THEN ServerError(d)
        ELSE Return(HTTP_201_CREATED, ProjectResponse(made.row), made.db)

create_project(d, project_data, user, t) ==
    LET made == create(d, "projects",
                       [name |-> project_data.name,
                        description |-> project_data.description,
                        created_by |-> user.id], t)
    IN  IF made.row = None THEN ServerError(d)
        ELSE Return(HTTP_201_CREATED, ProjectResponse(made.row), made.db)

\* project_data is model_dump(exclude_unset=True): the fields the request
\* sent, a sent null included.
update_project(d, project_id, project_data, user, t) ==
    LET project == get_by_id(d, "projects", project_id)
    IN  IF project = None
        THEN NotFoundException("Project not found", d)
        ELSE IF project.created_by # user.id
        THEN ForbiddenException("You don't have permission to update this project", d)
        ELSE LET updated == update(d, "projects", project, project_data, t)
             IN  IF updated.row = None THEN ServerError(d)
                 ELSE Return(HTTP_200_OK, ProjectResponse(updated.row), updated.db)

\* A delete_project that deletes (and commits) before it looks at the
\* owner.
delete_project_before_check(d, project_id, user) ==
    LET project == get_by_id(d, "projects", project_id)
        deleted == delete(d, "projects", project_id).db
    IN  IF project = None
        THEN NotFoundException("Project not found", d)
        ELSE IF project.created_by # user.id
        THEN ForbiddenException("You don't have permission to delete this project", deleted)
        ELSE Return(HTTP_204_NO_CONTENT, NoBody, deleted)

delete_project(d, project_id, user) ==
    LET project == get_by_id(d, "projects", project_id)
    IN  IF project = None
        THEN NotFoundException("Project not found", d)
        ELSE IF project.created_by # user.id
        THEN ForbiddenException("You don't have permission to delete this project", d)
        ELSE Return(HTTP_204_NO_CONTENT, NoBody, delete(d, "projects", project_id).db)

----------------------------------------------------------------------------
(* IssueService.  get_issue, update_issue and delete_issue read            *)
(* project.created_by of the parent without a None check: a missing parent *)
(* is an AttributeError.                                                   *)

\* A listing that checks the project exists but not who owns it.
get_project_issues_unchecked(d, project_id, user, status, priority) ==
    LET project == get_by_id(d, "projects", project_id)
    IN  IF project = None
        THEN NotFoundException("Project not found", d)
        ELSE Return(HTTP_200_OK,
                    Listing({IssueResponse(d.issues[i]) :
                        i \in repo_get_project_issues(d, project_id, status, priority)}),
                    d)

get_project_issues(d, project_id, user, status, priority) ==
    LET project == get_by_id(d, "projects", project_id)
    IN  IF project = None
        THEN NotFoundException("Project not found", d)
        ELSE IF project.created_by # user.id
        THEN ForbiddenException("You don't have access to this project", d)
        ELSE Return(HTTP_200_OK,
                    Listing({IssueResponse(d.issues[i]) :
                        i \in repo_get_project_issues(d, project_id, status, priority)}),
                    d)

\* A get_issue that does not load the parent project.
get_issue_unchecked(d, issue_id, user) ==
    LET issue == get_by_id(d, "issues", issue_id)
    IN  IF issue = None
        THEN NotFoundException("Issue not found", d)
        ELSE Return(HTTP_200_OK, IssueResponse(issue), d)

get_issue(d, issue_id, user) ==
    LET issue == get_by_id(d, "issues", issue_id)
    IN  IF issue = None
        THEN NotFoundException("Issue not found", d)
        ELSE LET project == get_by_id(d, "projects", issue.project_id)
             IN  IF project = None THEN ServerError(d)
                 ELSE IF project.created_by # user.id
                 THEN ForbiddenException("You don't have access to this issue", d)
                 ELSE Return(HTTP_200_OK, IssueResponse(issue), d)

\* A create_issue that treats a missing project like somebody else's.
create_issue_forbidden_first(d, project_id, issue_data, user, t) ==
    LET project == get_by_id(d, "projects", project_id)
    IN  IF project = None \/ project.created_by # user.id
        THEN ForbiddenException("You don't have permission to create issues in this project", d)
        ELSE LET made == create(d, "issues",
                                [project_id |-> project_id,
                                 title |-> issue_data.title,
                                 description |-> issue_data.description,
                                 status |-> issue_data.status,
                                 priority |-> issue_data.priority,
                                 created_by |-> user.id], t)
             IN  IF made.row = None THEN ServerError(d)
                 ELSE Return(HTTP_201_CREATED, IssueResponse(made.row), made.db)

\* A create_issue that tests the project's existence only.
create_issue_by_anyone(d, project_id, issue_data, user, t) ==
    LET project == get_by_id(d, "projects", project_id)
    IN  IF project = None
        THEN NotFoundException("Project not found", d)
        ELSE LET made == create(d, "issues",
                                [project_id |-> project_id,
                                 title |-> issue_data.title,
                                 description |-> issue_data.description,
                                 status |-> issue_data.status,
                                 priority |-> issue_data.priority,
                                 created_by |-> user.id], t)
             IN  IF made.row = None THEN ServerError(d)
                 ELSE Return(HTTP_201_CREATED, IssueResponse(made.row), made.db)

\* issue_data is the validated IssueCreate: status and priority hold the
\* schema defaults when the request left them out.
create_issue(d, project_id, issue_data, user, t) ==
    LET project == get_by_id(d, "projects", project_id)
    IN  IF project = None
        THEN NotFoundException("Project not found", d)
        ELSE IF project.created_by # user.id
        THEN ForbiddenException("You don't have permission to create issues in this project", d)
        ELSE LET made == create(d, "issues",
                                [project_id |-> project_id,
                                 title |-> issue_data.title,
                                 description |-> issue_data.description,
                                 status |-> issue_data.status,
                                 priority |-> issue_data.priority,
                                 created_by |-> user.id], t)
             IN  IF made.row = None THEN ServerError(d)
                 ELSE Return(HTTP_201_CREATED, IssueResponse(made.row), made.db)

update_issue(d, issue_id, issue_data, user, t) ==
    LET issue == get_by_id(d, "issues", issue_id)
    IN  IF issue = None
        THEN NotFoundException("Issue not found", d)
        ELSE LET project == get_by_id(d, "projects", issue.project_id)
             IN  IF project = None THEN ServerError(d)
                 ELSE IF project.created_by # user.id
                 THEN ForbiddenException("You don't have permission to update this issue", d)
                 ELSE LET updated == update(d, "issues", issue, issue_data, t)
                      IN  IF updated.row = None THEN ServerError(d)
                          ELSE Return(HTTP_200_OK, IssueResponse(updated.row), updated.db)

delete_issue(d, issue_id, user) ==
    LET issue == get_by_id(d, "issues", issue_id)
    IN  IF issue = None
        THEN NotFoundException("Issue not found", d)
        ELSE LET project == get_by_id(d, "projects", issue.project_id)
             IN  IF project = None THEN ServerError(d)
                 ELSE IF project.created_by # user.id
                 THEN ForbiddenException("You don't have permission to delete this issue", d)
                 ELSE Return(HTTP_204_NO_CONTENT, NoBody, delete(d, "issues", issue_id).db)

----------------------------------------------------------------------------
(* The authentication dependency and the routes.                           *)

\* No Authorization header on the request.
NoCredentials == [missing |-> TRUE]

Bearer(token) == [scheme |-> "Bearer", credentials |-> token]

\* A dependency that reads sub without testing the decoded payload for
\* None: payload.get on None is an AttributeError.
Auth_unguarded(d, auth_header, t) ==
    IF auth_header = NoCredentials
    THEN ForbiddenException("Not authenticated", d)
    ELSE LET payload == decode_token(auth_header.credentials, t)
         IN  IF payload = None \/ "raised" \in DOMAIN payload THEN ServerError(d)
             ELSE IF "sub" \notin DOMAIN payload
             THEN UnauthorizedException("Invalid token payload", d)
             ELSE LET user == get_by_email(d, payload.sub)
                  IN  IF user = None
                      THEN UnauthorizedException("User not found", d)
                      ELSE Return(HTTP_200_OK, user, d)

\* A dependency that reads the first stored user, whatever sub names.
Auth_any_user(d, auth_header, t) ==
    IF auth_header = NoCredentials
    THEN ForbiddenException("Not authenticated", d)
    ELSE LET payload == decode_token(auth_header.credentials, t)
         IN  IF payload = None
             THEN UnauthorizedException("Invalid authentication token", d)
             ELSE IF "sub" \notin DOMAIN payload
             THEN UnauthorizedException("Invalid token payload", d)
             ELSE IF d.users = EmptyTable
             THEN UnauthorizedException("User not found", d)
             ELSE Return(HTTP_200_OK,
                         d.users[CHOOSE id \in DOMAIN d.users :
                                    \A other \in DOMAIN d.users : id <= other],
                         d)

\* Auth.__call__ at time t: HTTPBearer refuses a request without the header
\* with 403; then the token is decoded, its sub read and the user looked up
\* by email.  The outcome carries the user row as its body.
Auth(d, auth_header, t) ==
    IF auth_header = NoCredentials
    THEN ForbiddenException("Not authenticated", d)
    ELSE LET payload == decode_token(auth_header.credentials, t)
         IN  IF payload = None
             THEN UnauthorizedException("Invalid authentication token", d)
             ELSE IF "raised" \in DOMAIN payload THEN ServerError(d)
             ELSE IF "sub" \notin DOMAIN payload
             THEN UnauthorizedException("Invalid token payload", d)
             ELSE LET user == get_by_email(d, payload.sub)
                  IN  IF user = None
                      THEN UnauthorizedException("User not found", d)
                      ELSE Return(HTTP_200_OK, user, d)

\* A route with current_user = Depends(auth): the body of the route runs
\* only when the dependency returned a user; otherwise the response is the
\* exception the dependency raised.
Authenticated(current_user) == current_user.status = HTTP_200_OK

Refused(current_user, d) == Raise(current_user.status, current_user.detail, d)

route_get_projects(d, auth_header, t) ==
    LET current_user == Auth(d, auth_header, t)
    IN  IF ~Authenticated(current_user) THEN Refused(current_user, d)
        ELSE get_user_projects(d, current_user.body)

route_get_project(d, auth_header, project_id, t) ==
    LET current_user == Auth(d, auth_header, t)
    IN  IF ~Authenticated(current_user) THEN Refused(current_user, d)
        ELSE get_project(d, project_id, current_user.body)

route_create_project(d, auth_header, project_data, t) ==
    LET current_user == Auth(d, auth_header, t)
    IN  IF ~Authenticated(current_user) THEN Refused(current_user, d)
        ELSE create_project(d, project_data, current_user.body, t)

route_update_project(d, auth_header, project_id, project_data, t) ==
    LET current_user == Auth(d, auth_header, t)
    IN  IF ~Authenticated(current_user) THEN Refused(current_user, d)
        ELSE update_project(d, project_id, project_data, current_user.body, t)

route_delete_project(d, auth_header, project_id, t) ==
    LET current_user == Auth(d, auth_header, t)
    IN  IF ~Authenticated(current_user) THEN Refused(current_user, d)
        ELSE delete_project(d, project_id, current_user.body)

route_get_project_issues(d, auth_header, project_id, status, priority, t) ==
    LET current_user == Auth(d, auth_header, t)
    IN  IF ~Authenticated(current_user) THEN Refused(current_user, d)
        ELSE get_project_issues(d, project_id, current_user.body, status, priority)

route_create_issue(d, auth_header, project_id, issue_data, t) ==
    LET current_user == Auth(d, auth_header, t)
    IN  IF ~Authenticated(current_user) THEN Refused(current_user, d)
        ELSE create_issue(d, project_id, issue_data, current_user.body, t)

route_get_issue(d, auth_header, issue_id, t) ==
    LET current_user == Auth(d, auth_header, t)
    IN  IF ~Authenticated(current_user) THEN Refused(current_user, d)
        ELSE get_issue(d, issue_id, current_user.body)

route_update_issue(d, auth_header, issue_id, issue_data, t) ==
    LET current_user == Auth(d, auth_header, t)
    IN  IF ~Authenticated(current_user) THEN Refused(current_user, d)
        ELSE update_issue(d, issue_id, issue_data, current_user.body, t)

route_delete_issue(d, auth_header, issue_id, t) ==
    LET current_user == Auth(d, auth_header, t)
    IN  IF ~Authenticated(current_user) THEN Refused(current_user, d)
        ELSE delete_issue(d, issue_id, current_user.body)

----------------------------------------------------------------------------
(* The requests the model sends.                                           *)

UserCreates ==
    {[name |-> "Ann", email |-> e, password |-> p] : e \in Emails, p \in Passwords}

ProjectCreates == {[name |-> "P1", description |-> "D1"]}

\* A PATCH body as model_dump(exclude_unset=True) gives it: the fields the
\* request sent.  NoFields is the body {}.
NoFields == [f \in {} |-> NULL]

\* The bodies of PATCH /projects/{id}; the last names a column that is no
\* field of the schema.
ProjectUpdatePayloads ==
    {[name |-> "P2"], [description |-> NULL], NoFields,
     [name |-> "P2", created_by |-> 2]}

\* ProjectUpdate declares name and description; a key of the body that is
\* no field of the schema is ignored (pydantic's default), so that
\* model_dump(exclude_unset=True) holds the declared fields that were sent.
ProjectUpdate(payload) ==
    [f \in (DOMAIN payload) \cap {"name", "description"} |-> payload[f]]

ProjectUpdates == {ProjectUpdate(payload) : payload \in ProjectUpdatePayloads}

\* The bodies of POST /projects/{id}/issues: one that leaves description,
\* status and priority out, one that sends them all.
IssueCreatePayloads ==
    {[title |-> "Bug"],
     [title |-> "Bug", description |-> "D1", status |-> "Closed", priority |-> "High"]}

\* A schema whose status and priority are Optional[...] = None: a field the
\* payload leaves out is null.
IssueCreate_optional(payload) ==
    [f \in (DOMAIN payload) \cup {"description", "status", "priority"} |->
        IF f \in DOMAIN payload THEN payload[f] ELSE NULL]

\* IssueCreate(**payload): a field the payload leaves out takes the default
\* of IssueBase.
IssueCreate(payload) ==
    LET defaults == [description |-> NULL, status |-> "Open", priority |-> "Medium"]
    IN  [f \in (DOMAIN payload) \cup (DOMAIN defaults) |->
            IF f \in DOMAIN payload THEN payload[f] ELSE defaults[f]]

IssueCreates == {IssueCreate(payload) : payload \in IssueCreatePayloads}

\* The bodies of PATCH /issues/{id}; the last names columns that are no
\* fields of the schema.
IssueUpdatePayloads ==
    {[status |-> "Closed"], [description |-> NULL],
     [status |-> NULL, priority |-> NULL], NoFields,
     [status |-> "Closed", project_id |-> 2, created_by |-> 2]}

\* A schema that keeps the keys it does not declare (extra="allow").
IssueUpdate_extra_allowed(payload) == payload

\* IssueUpdate declares title, description, status and priority; other keys
\* of the body are ignored.
IssueUpdate(payload) ==
    [f \in (DOMAIN payload) \cap {"title", "description", "status", "priority"} |->
        payload[f]]

IssueUpdates == {IssueUpdate(payload) : payload \in IssueUpdatePayloads}

StatusFilters == {NULL, "Open"}

PriorityFilters == {NULL, "Medium"}

ProjectIds == 1..MaxProjects

IssueIds == 1..MaxIssues

\* The token login issues at time t to the user with this email; for an
\* email no user has, a token of the same shape with user_id 0.
TokenFor(d, email, t) ==
    LET user == get_by_email(d, email)
    IN  create_token([sub |-> email,
                      user_id |-> IF user = None THEN 0 ELSE user.id],
                     Timedelta(ACCESS_TOKEN_EXPIRE_MINUTES * SecondsPerMinute), t)

\* The bearer tokens requests carry: the issued ones, one issued so long
\* ago that it has expired, one with an altered claim under the original
\* signature, one signed with another key, one without sub, and a string
\* that is no JWT.
ExpiredToken(d, t) ==
    TokenFor(d, 1, t - ACCESS_TOKEN_EXPIRE_MINUTES * SecondsPerMinute - 1)

AlteredToken(d, t) == [TokenFor(d, 1, t) EXCEPT !.payload.sub = 2]

WrongKeyToken(d, t) == jwt_encode(TokenFor(d, 1, t).payload, OtherKey, ALGORITHM)

NoSubToken(t) == create_token([user_id |-> 1], None, t)

Credentials(d, t) ==
    {NoCredentials}
      \cup {Bearer(TokenFor(d, e, t)) : e \in Emails}
      \cup {Bearer(ExpiredToken(d, t)), Bearer(AlteredToken(d, t)),
            Bearer(WrongKeyToken(d, t)), Bearer(NoSubToken(t)), Bearer(Malformed)}

----------------------------------------------------------------------------
(* The state machine.                                                      *)

Response(op, outcome) ==
    [op |-> op, status |-> outcome.status, detail |-> outcome.detail,
     body |-> outcome.body]

NoResponse == [op |-> "none", status |-> 0, detail |-> "", body |-> NoBody]

\* The token handler on its own: the token created, the claims, TTL and
\* time it was created with, the token presented for decoding, and the
\* result and time of the last decode_token call.
NotDecoded == [pending |-> TRUE]

NoLab ==
    [token |-> None, data |-> None, expires_delta |-> None, issued_at |-> 0,
     presented |-> None, decoded |-> NotDecoded, decoded_at |-> 0, ticks |-> 0,
     hashed |-> << >>, verified |-> None]

\* The requests that can be in flight together.
Requests == 1..NumRequests

\* A slot with no request in it.  A request in flight has its position pc,
\* the operation and its arguments, what it has read so far (the
\* authenticated user, the issue, the project), whether it has passed the
\* ownership check, its session, and the outcome once it has one.
IdleCall ==
    [pc |-> "idle", op |-> "none", auth_header |-> None, args |-> None,
     user |-> None, issue |-> None, project |-> None, authorized |-> FALSE,
     session |-> "none", closes |-> 0, outcome |-> None]

Init ==
    /\ db = EmptyDb
    /\ now = 0
    /\ resp = NoResponse
    /\ lab = NoLab
    /\ calls = [r \in Requests |-> IdleCall]

\* A request is handled when no other is: the handler runs as a whole and
\* its outcome is the response in flight.
Answer(op, outcome) ==
    /\ resp = NoResponse
    /\ db' = outcome.db
    /\ resp' = Response(op, outcome)
    /\ UNCHANGED <<now, lab, calls>>

\* The request ends: the response has left and get_db closes the session.
Close ==
    /\ resp # NoResponse
    /\ resp' = NoResponse
    /\ UNCHANGED <<db, now, lab, calls>>

Register(user_data, salt) ==
    /\ resp = NoResponse
    /\ db.seq.users <= NumEmails
    /\ Answer("register", register(db, user_data, salt, now))

Login(email, password) ==
    Answer("login", login(db, email, password, now))

GetProjects(auth_header) ==
    Answer("get_projects", route_get_projects(db, auth_header, now))

GetProject(auth_header, project_id) ==
    Answer("get_project", route_get_project(db, auth_header, project_id, now))

CreateProject(auth_header, project_data) ==
    /\ db.seq.projects <= MaxProjects
    /\ Answer("create_project",
              route_create_project(db, auth_header, project_data, now))

UpdateProject(auth_header, project_id, project_data) ==
    Answer("update_project",
           route_update_project(db, auth_header, project_id, project_data, now))

DeleteProject(auth_header, project_id) ==
    Answer("delete_project", route_delete_project(db, auth_header, project_id, now))

GetProjectIssues(auth_header, project_id, status, priority) ==
    Answer("get_project_issues",
           route_get_project_issues(db, auth_header, project_id, status, priority, now))

CreateIssue(auth_header, project_id, issue_data) ==
    /\ db.seq.issues <= MaxIssues
    /\ Answer("create_issue",
              route_create_issue(db, auth_header, project_id, issue_data, now))

GetIssue(auth_header, issue_id) ==
    Answer("get_issue", route_get_issue(db, auth_header, issue_id, now))

UpdateIssue(auth_header, issue_id, issue_data) ==
    Answer("update_issue",
           route_update_issue(db, auth_header, issue_id, issue_data, now))

DeleteIssue(auth_header, issue_id) ==
    Answer("delete_issue", route_delete_issue(db, auth_header, issue_id, now))

\* The Authorization headers of the next request: none while a request is
\* being answered.
Headers == IF resp = NoResponse THEN Credentials(db, now) ELSE {}

Next ==
    \/ \E user_data \in UserCreates, salt \in Salts : Register(user_data, salt)
    \/ \E email \in Emails, password \in Passwords : Login(email, password)
    \/ \E h \in Headers : GetProjects(h)
    \/ \E h \in Headers, p \in ProjectIds : GetProject(h, p)
    \/ \E h \in Headers, data \in ProjectCreates : CreateProject(h, data)
    \/ \E h \in Headers, p \in ProjectIds, data \in ProjectUpdates :
          UpdateProject(h, p, data)
    \/ \E h \in Headers, p \in ProjectIds : DeleteProject(h, p)
    \/ \E h \in Headers, p \in ProjectIds,
          status \in StatusFilters, priority \in PriorityFilters :
          GetProjectIssues(h, p, status, priority)
    \/ \E h \in Headers, p \in ProjectIds, data \in IssueCreates :
          CreateIssue(h, p, data)
    \/ \E h \in Headers, i \in IssueIds : GetIssue(h, i)
    \/ \E h \in Headers, i \in IssueIds, data \in IssueUpdates :
          UpdateIssue(h, i, data)
    \/ \E h \in Headers, i \in IssueIds : DeleteIssue(h, i)
    \/ Close

Spec == Init /\ [][Next]_vars

----------------------------------------------------------------------------
(* The token handler on its own: create_token with any claims and TTL,     *)
(* the clock, an attacker altering the token, and decode_token.            *)

TokenClaims ==
    {[sub |-> e, user_id |-> u] : e \in Emails, u \in 1..NumEmails}

Deltas == {None} \cup {Timedelta(seconds) : seconds \in -1..2}

TickSteps == {1, ACCESS_TOKEN_EXPIRE_MINUTES * SecondsPerMinute - 1}

AlterKinds == {"claims", "exp", "signature", "key", "alg", "malformed"}

\* What an attacker without the signing key can make of a token.
Alter(kind, token) ==
    CASE kind = "claims" -> [token EXCEPT !.payload.user_id = @ + 1]
      [] kind = "exp" -> [token EXCEPT !.payload.exp = @ + 1]
      [] kind = "signature" -> [token EXCEPT !.signature.payload.exp = @ + 1]
      [] kind = "key" ->
           jwt_encode([token.payload EXCEPT !.exp = @ + 1], OtherKey, ALGORITHM)
      [] kind = "alg" -> [token EXCEPT !.header.alg = "none"]
      [] kind = "malformed" -> Malformed

CreateToken(data, expires_delta) ==
    /\ lab.token = None
    /\ lab' = [lab EXCEPT !.token = create_token(data, expires_delta, now),
                          !.data = data,
                          !.expires_delta = expires_delta,
                          !.issued_at = now,
                          !.presented = create_token(data, expires_delta, now)]
    /\ UNCHANGED <<db, now, resp, calls>>

AlterToken(kind) ==
    /\ lab.token # None
    /\ lab.presented = lab.token
    /\ lab' = [lab EXCEPT !.presented = Alter(kind, lab.token)]
    /\ UNCHANGED <<db, now, resp, calls>>

DecodeToken ==
    /\ lab.presented # None
    /\ lab' = [lab EXCEPT !.decoded = decode_token(lab.presented, now),
                          !.decoded_at = now]
    /\ UNCHANGED <<db, now, resp, calls>>

Tick(step) ==
    /\ lab.ticks < MaxTicks
    /\ now' = now + step
    /\ lab' = [lab EXCEPT !.ticks = @ + 1]
    /\ UNCHANGED <<db, resp, calls>>

NextToken ==
    \/ \E data \in TokenClaims, expires_delta \in Deltas :
          CreateToken(data, expires_delta)
    \/ \E kind \in AlterKinds : AlterToken(kind)
    \/ DecodeToken
    \/ \E step \in TickSteps : Tick(step)

SpecToken == Init /\ [][NextToken]_vars

----------------------------------------------------------------------------
(* The password handler on its own: hash called on any plaintext, long     *)
(* ones included (UserCreate.password allows 100 characters), and verify   *)
(* of any plaintext against a digest hash returned.  lab.hashed lists the  *)
(* calls of hash, lab.verified is the last call of verify and whether it   *)
(* raised.                                                                 *)

Plaintexts == {Plaintext(head, tail) : head \in 1..NumPasswords, tail \in 0..NumTails}

\* The salts bcrypt's generator draws: 128 random bits, taken never to come
\* out the same twice.
Draws == 1..NumDraws

Drawn == {lab.hashed[k].hashed_password.salt : k \in 1..Len(lab.hashed)}

Hash(plain_password, salt) ==
    /\ Len(lab.hashed) < MaxHashes
    /\ salt \notin Drawn
    /\ lab' = [lab EXCEPT !.hashed =
                  Append(@, [plain_password |-> plain_password,
                             hashed_password |-> hash(plain_password, salt)])]
    /\ UNCHANGED <<db, now, resp, calls>>

\* The digests verify is called with: those hash returned, and a stored
\* string that is no digest.
Digests ==
    {lab.hashed[k].hashed_password : k \in 1..Len(lab.hashed)} \cup {UnknownDigest}

Verify(plain_password, hashed_password) ==
    /\ lab' = [lab EXCEPT !.verified =
                  [plain_password |-> plain_password,
                   hashed_password |-> hashed_password,
                   raised |-> ~identify(hashed_password),
                   result |-> /\ identify(hashed_password)
                              /\ verify(plain_password, hashed_password)]]
    /\ UNCHANGED <<db, now, resp, calls>>

NextHash ==
    \/ \E plain_password \in Plaintexts, salt \in Draws : Hash(plain_password, salt)
    \/ \E plain_password \in Plaintexts, hashed_password \in Digests :
          Verify(plain_password, hashed_password)

SpecHash == Init /\ [][NextHash]_vars

----------------------------------------------------------------------------
(* Requests in flight together.  Every request is served in a thread of    *)
(* its own with a session of its own (get_db); each statement its handler  *)
(* sends to the database is one step, and the steps of different requests  *)
(* interleave.  The database is PostgreSQL at READ COMMITTED: a statement  *)
(* sees what was committed before it, and every repository write commits   *)
(* at once.  What a request has read stays in its session as it was read.  *)

\* get_db up to its yield: a new session for the request.
get_db_enter(call) == [call EXCEPT !.session = "open"]

\* A dependency that closes the session after the yield without a
\* try/finally: an exception thrown into the generator skips the close.
get_db_exit_no_finally(call) ==
    IF call.outcome.status >= HTTP_401_UNAUTHORIZED
    THEN call
    ELSE [call EXCEPT !.session = "closed", !.closes = @ + 1]

\* get_db after its yield: the finally block closes the session, whether
\* the handler returned or raised.
get_db_exit(call) == [call EXCEPT !.session = "closed", !.closes = @ + 1]

\* The handler has returned or raised: what is left is the exit of get_db.
Finish(call, outcome) ==
    [call EXCEPT !.pc = "exit",
                 !.auth_header = None,
                 !.outcome = [status |-> outcome.status,
                              detail |-> outcome.detail,
                              body |-> outcome.body]]

\* The database as it is after the owner has registered, created a project
\* and an issue in it.
Seeded ==
    LET d1 == register(EmptyDb, [name |-> "Ann", email |-> 1,
                                 password |-> Plaintext(1, 0)], 1, 0).db
        owner == get_by_email(d1, 1)
        d2 == create_project(d1, [name |-> "P1", description |-> "D1"], owner, 0).db
    IN  create_issue(d2, 1, IssueCreate([title |-> "Bug"]), owner, 0).db

InitRace ==
    /\ db = Seeded
    /\ now = 0
    /\ resp = NoResponse
    /\ lab = NoLab
    /\ calls = [r \in Requests |-> IdleCall]

\* The requests that arrive: an operation and its arguments.  They address
\* the project and the issue stored at the start.
RaceCalls ==
    {[op |-> "register", args |-> user_data] :
        user_data \in {u \in UserCreates : u.password = Plaintext(1, 0)}}
      \cup {[op |-> "delete_project", args |-> [project_id |-> p]] :
                p \in DOMAIN Seeded.projects}
      \cup {[op |-> "create_issue",
             args |-> [project_id |-> p, issue_data |-> IssueCreate([title |-> "Bug"])]] :
                p \in DOMAIN Seeded.projects}
      \cup {[op |-> "get_issue", args |-> [issue_id |-> i]] : i \in DOMAIN Seeded.issues}
      \cup {[op |-> "update_issue",
             args |-> [issue_id |-> i, issue_data |-> [status |-> "Closed"]]] :
                i \in DOMAIN Seeded.issues}
      \cup {[op |-> "delete_issue", args |-> [issue_id |-> i]] :
                i \in DOMAIN Seeded.issues}

\* The Authorization headers they carry.
RaceHeaders == {NoCredentials} \cup {Bearer(TokenFor(db, e, now)) : e \in Emails}

\* The create_issue requests in flight that have not inserted yet.
Inserting == {r \in Requests : calls[r].op = "create_issue" /\ calls[r].outcome = None}

\* A request arrives at a free slot: get_db opens its session.
Begin(r, call, auth_header) ==
    /\ calls[r].pc = "idle"
    /\ call.op = "create_issue" => db.seq.issues + Cardinality(Inserting) <= MaxIssues
    /\ calls' = [calls EXCEPT ![r] =
                    get_db_enter([IdleCall EXCEPT
                        !.pc = IF call.op = "register" THEN "check_email" ELSE "auth",
                        !.op = call.op,
                        !.args = call.args,
                        !.auth_header = IF call.op = "register" THEN None
                                        ELSE auth_header])]
    /\ UNCHANGED <<db, now, resp, lab>>

\* The first statement of each service method.
FirstStep(op) ==
    IF op \in {"delete_project", "create_issue"} THEN "fetch_project"
    ELSE "fetch_issue"

\* Depends(auth): the token is decoded and the user read by email; the
\* header is not read again.
Authenticate(r) ==
    /\ calls[r].pc = "auth"
    /\ LET current_user == Auth(db, calls[r].auth_header, now)
       IN  calls' = [calls EXCEPT ![r] =
                        IF ~Authenticated(current_user)
                        THEN Finish(calls[r], Refused(current_user, db))
                        ELSE [calls[r] EXCEPT !.pc = FirstStep(calls[r].op),
                                              !.auth_header = None,
                                              !.user = current_user.body]]
    /\ UNCHANGED <<db, now, resp, lab>>

\* AuthService.register, the SELECT by email.
CheckEmail(r) ==
    /\ calls[r].pc = "check_email"
    /\ LET existing_user == get_by_email(db, calls[r].args.email)
       IN  calls' = [calls EXCEPT ![r] =
                        IF existing_user # None
                        THEN Finish(calls[r], ConflictException("Email already registered", db))
                        ELSE [calls[r] EXCEPT !.pc = "insert_user"]]
    /\ UNCHANGED <<db, now, resp, lab>>

\* AuthService.register, the INSERT: users.email is unique, and the
\* IntegrityError of a refused INSERT is not caught.
InsertUser(r, salt) ==
    /\ calls[r].pc = "insert_user"
    /\ LET user_data == calls[r].args
           made == create(db, "users",
                          [name |-> user_data.name,
                           email |-> user_data.email,
                           hashed_password |-> hash(user_data.password, salt)], now)
       IN  /\ db' = made.db
           /\ calls' = [calls EXCEPT ![r] =
                           IF made.row = None THEN Finish(calls[r], ServerError(db))
                           ELSE Finish(calls[r], Return(HTTP_201_CREATED,
                                                 UserResponse(made.row), made.db))]
    /\ UNCHANGED <<now, resp, lab>>

\* The detail of the ForbiddenException of each service method.
ForbiddenDetail(op) ==
    CASE op = "delete_project" -> "You don't have permission to delete this project"
      [] op = "create_issue" ->
           "You don't have permission to create issues in this project"
      [] op = "get_issue" -> "You don't have access to this issue"
      [] op = "update_issue" -> "You don't have permission to update this issue"
      [] op = "delete_issue" -> "You don't have permission to delete this issue"

\* delete_project and create_issue: the project is read and its owner
\* compared with the caller.
FetchProject(r) ==
    /\ calls[r].pc = "fetch_project"
    /\ LET project == get_by_id(db, "projects", calls[r].args.project_id)
       IN  calls' = [calls EXCEPT ![r] =
                        IF project = None
                        THEN Finish(calls[r], NotFoundException("Project not found", db))
                        ELSE IF project.created_by # calls[r].user.id
                        THEN Finish(calls[r], ForbiddenException(ForbiddenDetail(calls[r].op), db))
                        ELSE [calls[r] EXCEPT !.project = project,
                                       !.authorized = TRUE,
                                       !.pc = IF calls[r].op = "delete_project" THEN "find"
                                              ELSE "insert_issue"]]
    /\ UNCHANGED <<db, now, resp, lab>>

\* get_issue, update_issue and delete_issue: the issue is read.
FetchIssue(r) ==
    /\ calls[r].pc = "fetch_issue"
    /\ LET issue == get_by_id(db, "issues", calls[r].args.issue_id)
       IN  calls' = [calls EXCEPT ![r] =
                        IF issue = None
                        THEN Finish(calls[r], NotFoundException("Issue not found", db))
                        ELSE [calls[r] EXCEPT !.issue = issue, !.pc = "resolve_parent"]]
    /\ UNCHANGED <<db, now, resp, lab>>

\* get_issue, update_issue and delete_issue: the parent project of the issue
\* read before is read and its owner compared with the caller;
\* project.created_by on None is an AttributeError.  get_issue then returns
\* the issue as it was read.
ResolveParent(r) ==
    /\ calls[r].pc = "resolve_parent"
    /\ LET project == get_by_id(db, "projects", calls[r].issue.project_id)
       IN  calls' = [calls EXCEPT ![r] =
                        IF project = None THEN Finish(calls[r], ServerError(db))
                        ELSE IF project.created_by # calls[r].user.id
                        THEN Finish(calls[r], ForbiddenException(ForbiddenDetail(calls[r].op), db))
                        ELSE IF calls[r].op = "get_issue"
                        THEN Finish([calls[r] EXCEPT !.project = project, !.authorized = TRUE],
                                    Return(HTTP_200_OK, IssueResponse(calls[r].issue), db))
                        ELSE [calls[r] EXCEPT !.project = project,
                                       !.authorized = TRUE,
                                       !.pc = IF calls[r].op = "update_issue" THEN "write"
                                              ELSE "find"]]
    /\ UNCHANGED <<db, now, resp, lab>>

\* The table and id a delete request removes.
Target(call) ==
    IF call.op = "delete_project"
    THEN [model |-> "projects", id |-> call.args.project_id]
    ELSE [model |-> "issues", id |-> call.args.issue_id]

\* BaseRepository.delete, the SELECT: without a row it returns False, which
\* the service returns and the route drops (return None, 204).
Find(r) ==
    /\ calls[r].pc = "find"
    /\ LET obj == get_by_id(db, Target(calls[r]).model, Target(calls[r]).id)
       IN  calls' = [calls EXCEPT ![r] =
                        IF obj = None
                        THEN Finish(calls[r], Return(HTTP_204_NO_CONTENT, NoBody, db))
                        ELSE [calls[r] EXCEPT !.pc = "flush"]]
    /\ UNCHANGED <<db, now, resp, lab>>

\* BaseRepository.delete, db.delete(obj) and commit: the DELETE of a row
\* that is gone matches no row, which the ORM reports as a warning; delete
\* returns True.
Flush(r) ==
    /\ calls[r].pc = "flush"
    /\ LET removed == delete(db, Target(calls[r]).model, Target(calls[r]).id)
       IN  /\ db' = removed.db
           /\ calls' = [calls EXCEPT ![r] =
                           Finish(calls[r], Return(HTTP_204_NO_CONTENT, NoBody, removed.db))]
    /\ UNCHANGED <<now, resp, lab>>

\* update_issue, BaseRepository.update on the issue read before.
Write(r) ==
    /\ calls[r].pc = "write"
    /\ LET updated == update(db, "issues", calls[r].issue,
                             calls[r].args.issue_data, now)
       IN  /\ db' = updated.db
           /\ calls' = [calls EXCEPT ![r] =
                           IF updated.row = None THEN Finish(calls[r], ServerError(db))
                           ELSE Finish(calls[r], Return(HTTP_200_OK,
                                                 IssueResponse(updated.row),
                                                 updated.db))]
    /\ UNCHANGED <<now, resp, lab>>

\* create_issue, the INSERT: issues.project_id is a foreign key, and the
\* IntegrityError of a refused INSERT is not caught.
InsertIssue(r) ==
    /\ calls[r].pc = "insert_issue"
    /\ LET issue_data == calls[r].args.issue_data
           made == create(db, "issues",
                          [project_id |-> calls[r].args.project_id,
                           title |-> issue_data.title,
                           description |-> issue_data.description,
                           status |-> issue_data.status,
                           priority |-> issue_data.priority,
                           created_by |-> calls[r].user.id], now)
       IN  /\ db' = made.db
           /\ calls' = [calls EXCEPT ![r] =
                           IF made.row = None THEN Finish(calls[r], ServerError(db))
                           ELSE Finish(calls[r], Return(HTTP_201_CREATED,
                                                 IssueResponse(made.row), made.db))]
    /\ UNCHANGED <<now, resp, lab>>

\* The handler is left, by return or by exception: get_db closes the
\* session and the response is sent.
Exit(r) ==
    /\ calls[r].pc = "exit"
    /\ calls' = [calls EXCEPT ![r] = [get_db_exit(calls[r]) EXCEPT !.pc = "done"]]
    /\ UNCHANGED <<db, now, resp, lab>>

\* The client has its response: the slot is free for another request.
Release(r) ==
    /\ calls[r].pc = "done"
    /\ calls' = [calls EXCEPT ![r] = IdleCall]
    /\ UNCHANGED <<db, now, resp, lab>>

\* The steps of the request in slot r from its first statement to the exit
\* of get_db.
Run(r) ==
    \/ Authenticate(r)
    \/ CheckEmail(r)
    \/ \E salt \in Salts : InsertUser(r, salt)
    \/ FetchProject(r)
    \/ FetchIssue(r)
    \/ ResolveParent(r)
    \/ Find(r)
    \/ Flush(r)
    \/ Write(r)
    \/ InsertIssue(r)
    \/ Exit(r)

NextRace ==
    \/ \E r \in Requests, call \in RaceCalls, h \in RaceHeaders : Begin(r, call, h)
    \/ \E r \in Requests : Run(r)
    \/ \E r \in Requests : Release(r)

SpecRace == InitRace /\ [][NextRace]_vars

\* A worker thread that has taken a request runs it to its end.
FairRace == SpecRace /\ \A r \in Requests : WF_vars(Run(r))

----------------------------------------------------------------------------
(* Properties.                                                             *)

StoredUsers == {db.users[u] : u \in DOMAIN db.users}

\* The Authorization header of a request by a stored user: the bearer token
\* login issues to that user now.
HeaderOf(user) == Bearer(TokenFor(db, user.email, now))

\* What a property reads of an outcome r: its status, its detail, whether
\* it has no body, and whether it left the database as it was.
Brief(r) == <<r.status, r.detail, r.body = NoBody, r.db = db>>

\* The status of each of the five operations addressed to project p, called
\* by `user` with every payload and filter of the model.
ProjectAccess(p, user) ==
    {get_project(db, p, user).status, delete_project(db, p, user).status}
      \cup {update_project(db, p, data, user, now).status : data \in ProjectUpdates}
      \cup {get_project_issues(db, p, user, status, priority).status :
               status \in StatusFilters, priority \in PriorityFilters}
      \cup {create_issue(db, p, data, user, now).status : data \in IssueCreates}

\* The same five operations as requests carrying the header h.
ProjectRequests(p, h) ==
    {Brief(route_get_project(db, h, p, now)),
     Brief(route_delete_project(db, h, p, now))}
      \cup {Brief(route_update_project(db, h, p, data, now)) :
               data \in ProjectUpdates}
      \cup {Brief(route_get_project_issues(db, h, p, status, priority, now)) :
               status \in StatusFilters, priority \in PriorityFilters}
      \cup {Brief(route_create_issue(db, h, p, data, now)) : data \in IssueCreates}

\* The three operations addressed to issue i as requests carrying h.
IssueRequests(i, h) ==
    {Brief(route_get_issue(db, h, i, now)), Brief(route_delete_issue(db, h, i, now))}
      \cup {Brief(route_update_issue(db, h, i, data, now)) : data \in IssueUpdates}

\* C1: a user who is not the owner of a stored project gets Forbidden from
\* every access path to it: get, update and delete of the project, the
\* listing and the creation of its issues, and get, update and delete of
\* every issue stored under it.
C1_NonOwnerForbidden ==
    \A p \in DOMAIN db.projects : \A user \in StoredUsers :
        db.projects[p].created_by # user.id =>
            /\ \A r \in ProjectRequests(p, HeaderOf(user)) :
                   r[1] = HTTP_403_FORBIDDEN
            /\ \A i \in DOMAIN db.issues :
                   db.issues[i].project_id = p =>
                       \A r \in IssueRequests(i, HeaderOf(user)) :
                           r[1] = HTTP_403_FORBIDDEN

\* C1 happens: a request to update an issue was answered Forbidden.
C1_Witness ==
    /\ resp.op = "update_issue"
    /\ resp.status = HTTP_403_FORBIDDEN
    /\ \E i \in DOMAIN db.issues : \E user \in StoredUsers :
           db.projects[db.issues[i].project_id].created_by # user.id

\* C2: existence is decided before ownership.  Each of the five
\* operations addressed to a project answers NotFound for an id that
\* identifies no stored project, whoever calls, and answers Forbidden only
\* for a stored project whose created_by is not the caller.
C2_ExistenceBeforeOwnership ==
    \A p \in 1..(MaxProjects + 1) : \A user \in StoredUsers :
        \A status \in ProjectAccess(p, user) :
            /\ p \notin DOMAIN db.projects => status = HTTP_404_NOT_FOUND
            /\ status = HTTP_403_FORBIDDEN =>
                   /\ p \in DOMAIN db.projects
                   /\ db.projects[p].created_by # user.id

\* C2 happens: with a project of another user stored, a request to create
\* an issue under an id that identifies no project was answered NotFound.
C2_Witness ==
    /\ resp.op = "create_issue"
    /\ resp.status = HTTP_404_NOT_FOUND
    /\ resp.detail = "Project not found"
    /\ \E p \in DOMAIN db.projects : \E user \in StoredUsers :
           db.projects[p].created_by # user.id

\* The caller owns the project the stored issue i belongs to.
OwnsParent(i, user) ==
    /\ i \in DOMAIN db.issues
    /\ db.issues[i].project_id \in DOMAIN db.projects
    /\ db.projects[db.issues[i].project_id].created_by = user.id

\* C3: get_issue, update_issue and delete_issue by user U succeed exactly
\* when the issue is stored and the created_by of its parent project is
\* U.id; a success of get and update returns the issue addressed.
C3_IssueAccessByParentOwner ==
    \A i \in 1..(MaxIssues + 1) : \A user \in StoredUsers :
        /\ LET r == get_issue(db, i, user)
           IN  /\ r.status = HTTP_200_OK <=> OwnsParent(i, user)
               /\ r.status = HTTP_200_OK => r.body = IssueResponse(db.issues[i])
        /\ \A data \in IssueUpdates :
               LET r == update_issue(db, i, data, user, now)
               IN  /\ r.status = HTTP_200_OK <=> OwnsParent(i, user)
                   /\ r.status = HTTP_200_OK => r.body.id = i
        /\ LET r == delete_issue(db, i, user)
           IN  /\ r.status = HTTP_204_NO_CONTENT <=> OwnsParent(i, user)
               /\ r.status = HTTP_204_NO_CONTENT => i \notin DOMAIN r.db.issues

\* C3 happens: the owner of the parent project deleted an issue while
\* another user, who owns no stored project, is registered.
C3_Witness ==
    /\ resp.op = "delete_issue"
    /\ resp.status = HTTP_204_NO_CONTENT
    /\ db.seq.issues > 1
    /\ \E user \in StoredUsers :
           \A p \in DOMAIN db.projects : db.projects[p].created_by # user.id

\* The ids the database has handed out whose row is gone.
DeletedProjects(d) == (1..(d.seq.projects - 1)) \ DOMAIN d.projects

DeletedIssues(d) == (1..(d.seq.issues - 1)) \ DOMAIN d.issues

\* No stored issue belongs to a deleted project, get_project on a deleted
\* project is NotFound for every user, no listing shows an issue of a
\* deleted project, and get_issue on a deleted issue is NotFound.
C4_Gone ==
    /\ \A i \in DOMAIN db.issues : db.issues[i].project_id \in DOMAIN db.projects
    /\ \A user \in StoredUsers :
           /\ \A p \in DeletedProjects(db) :
                  get_project(db, p, user).status = HTTP_404_NOT_FOUND
           /\ \A i \in DeletedIssues(db) :
                  get_issue(db, i, user).status = HTTP_404_NOT_FOUND
           /\ \A q \in ProjectIds, status \in StatusFilters, priority \in PriorityFilters :
                  LET r == get_project_issues(db, q, user, status, priority)
                  IN  r.status = HTTP_200_OK =>
                          \A issue \in r.body.items : issue.project_id \notin DeletedProjects(db)

\* delete_project by the owner removes the project and, in the same
\* operation, every issue whose project_id is the project's id; the rows
\* of other projects stay.
C4_DeleteCascades ==
    \A p \in DOMAIN db.projects :
        LET owner == db.users[db.projects[p].created_by]
            r == delete_project(db, p, owner)
        IN  /\ r.status = HTTP_204_NO_CONTENT
            /\ DOMAIN r.db.projects = (DOMAIN db.projects) \ {p}
            /\ DOMAIN r.db.issues =
                   {i \in DOMAIN db.issues : db.issues[i].project_id # p}
            /\ \A i \in DOMAIN db.issues :
                   db.issues[i].project_id = p =>
                       get_issue(r.db, i, owner).status = HTTP_404_NOT_FOUND
            /\ get_project(r.db, p, owner).status = HTTP_404_NOT_FOUND

\* No operation brings a deleted project or issue back or gives its id to
\* a new row.
C4_StaysGone ==
    /\ DeletedProjects(db) \subseteq DeletedProjects(db')
    /\ DeletedIssues(db) \subseteq DeletedIssues(db')

\* C4: deleting a project removes all its issues with it, and the deletion
\* is permanent: from then on get_project on the project and get_issue on
\* any of those issues answer NotFound, and no listing shows them.
C4_CascadeDeletePermanent ==
    /\ [](C4_Gone /\ C4_DeleteCascades)
    /\ [][C4_StaysGone]_vars

\* C4 happens: a project was deleted and an issue went with it, while an
\* issue of another project is still stored.
C4_Witness ==
    /\ resp.op = "delete_project"
    /\ resp.status = HTTP_204_NO_CONTENT
    /\ DeletedProjects(db) # {}
    /\ DeletedIssues(db) # {}
    /\ DOMAIN db.issues # {}

C6_LoginFailuresAlike ==
    \A e1 \in Emails, e2 \in Emails, p1 \in Passwords, p2 \in Passwords :
        LET r1 == login(db, e1, p1, now)
            r2 == login(db, e2, p2, now)
        IN  (r1.status # HTTP_200_OK /\ r2.status # HTTP_200_OK) =>
                /\ r1.status = HTTP_401_UNAUTHORIZED
                /\ r1.body = NoBody
                /\ r1.status = r2.status
                /\ r1.detail = r2.detail
                /\ r1.body = r2.body
                /\ r1.db = r2.db

\* C6 happens: a login was answered Unauthorized while one email of the
\* model is registered (a wrong password fails for it) and another is not.
C6_Witness ==
    /\ resp.op = "login"
    /\ resp.status = HTTP_401_UNAUTHORIZED
    /\ \E e1 \in Emails, e2 \in Emails, p \in Passwords :
           /\ get_by_email(db, e1) # None
           /\ ~verify(p, get_by_email(db, e1).hashed_password)
           /\ get_by_email(db, e2) = None

\* C7: login returns a bearer token exactly when a user with the email is
\* stored and the password verifies against that user's stored hash; the
\* token's claims carry the user's email as sub and the user's id as
\* user_id; login changes nothing stored.
C7_LoginIssuesToken ==
    \A email \in Emails, password \in Passwords :
        LET r == login(db, email, password, now)
            user == get_by_email(db, email)
        IN  /\ r.db = db
            /\ r.status = HTTP_200_OK <=>
                   (user # None /\ verify(password, user.hashed_password))
            /\ r.status # HTTP_200_OK => r.body = NoBody
            /\ r.status = HTTP_200_OK =>
                   /\ r.body.token_type = "bearer"
                   /\ decode_token(r.body.access_token, now).sub = user.email
                   /\ decode_token(r.body.access_token, now).user_id = user.id

\* C7 happens: the second registered user logged in and was given a token
\* with that user's id, while another password fails for the same email.
C7_Witness ==
    /\ resp.op = "login"
    /\ resp.status = HTTP_200_OK
    /\ resp.body.access_token.payload.user_id = NumEmails
    /\ \E password \in Passwords :
           login(db, resp.body.access_token.payload.sub, password, now).status
               = HTTP_401_UNAUTHORIZED

\* The claims create_token was given, read back from a decoded payload.
ClaimsOf(payload) == [k \in (DOMAIN payload) \ {"exp"} |-> payload[k]]

\* C8: decode_token of the token create_token made returns the original
\* claims at any time before the embedded expiry, and the failure value at
\* every time at or after it (now >= exp).
C8_RoundTripUntilExpiry ==
    lab.token # None =>
        LET decoded == decode_token(lab.token, now)
        IN  IF now < lab.token.payload.exp
            THEN decoded # None /\ ClaimsOf(decoded) = lab.data
            ELSE decoded = None

\* C9: decode_token returns None, and raises nothing, for a token whose
\* claims, expiry or signature was altered, for a token signed with another
\* key or naming another algorithm, and for a string that is no JWT.
C9_AlteredTokenIsNone ==
    /\ decode_token(Malformed, now) = None
    /\ lab.token # None =>
           \A kind \in AlterKinds :
               /\ Alter(kind, lab.token) # lab.token
               /\ decode_token(Alter(kind, lab.token), now) = None

\* C9 happens: a token with an altered claim was decoded before the
\* original's expiry and the result was None.
C9_Witness ==
    /\ lab.token # None
    /\ lab.presented = Alter("claims", lab.token)
    /\ lab.decoded = None
    /\ lab.decoded_at < lab.token.payload.exp
    /\ decode_token(lab.token, lab.decoded_at) # None

\* The credential of header h does not authenticate anybody.
Unauthenticated(h) ==
    \/ h = NoCredentials
    \/ LET payload == decode_token(h.credentials, now)
       IN  \/ payload = None
           \/ "sub" \notin DOMAIN payload
           \/ get_by_email(db, payload.sub) = None

\* The response to a request carrying h is the dependency's refusal, with
\* no body, and nothing was stored.
Rejected(h, r) ==
    /\ r[1] = IF h = NoCredentials THEN HTTP_403_FORBIDDEN
                                   ELSE HTTP_401_UNAUTHORIZED
    /\ r[2] \in {"Not authenticated", "Invalid authentication token",
                 "Invalid token payload", "User not found"}
    /\ r[3]
    /\ r[4]

\* C10: a request to any /projects or /issues route whose credential is
\* missing, fails decode_token, has no sub or names no stored user is
\* refused with 401 (403 when the header is missing) whatever it
\* addresses, and nothing stored changes.  Headers are the credentials an
\* arriving request can carry.
C10_UnauthenticatedRejected ==
    \A h \in Headers :
        Unauthenticated(h) =>
            /\ Rejected(h, Brief(route_get_projects(db, h, now)))
            /\ \A data \in ProjectCreates :
                   Rejected(h, Brief(route_create_project(db, h, data, now)))
            /\ \A p \in 1..(MaxProjects + 1) :
                   \A r \in ProjectRequests(p, h) : Rejected(h, r)
            /\ \A i \in 1..(MaxIssues + 1) :
                   \A r \in IssueRequests(i, h) : Rejected(h, r)

\* C10 happens: a request to delete a project carried a well-signed token
\* whose sub names no stored user and was answered 401, with a project
\* stored.
C10_Witness ==
    /\ resp.op = "delete_project"
    /\ resp.status = HTTP_401_UNAUTHORIZED
    /\ resp.detail = "User not found"
    /\ db.projects # EmptyTable

\* The times a call may be made at: now, and up to MaxDelay seconds later.
Times == now..(now + MaxDelay)

OwnerOf(p) == db.users[db.projects[p].created_by]

ParentOwner(i) == OwnerOf(db.issues[i].project_id)

\* Row `after` differs from row `before` at most in the fields of `sent` and
\* in updated_at.
OnlySent(before, after, sent) ==
    /\ DOMAIN after = DOMAIN before
    /\ \A f \in (DOMAIN before) \ (sent \cup {"updated_at"}) : after[f] = before[f]

\* Table `after` is table `before` except for the row `id`.
OthersKept(before, after, id) ==
    /\ DOMAIN after = DOMAIN before
    /\ \A other \in (DOMAIN before) \ {id} : after[other] = before[other]

\* C11: a successful update_project or update_issue changes only fields
\* the payload names (and updated_at): every other field of the entity,
\* with id, project_id, created_by and created_at, keeps its value, and
\* every other stored row, table and sequence is unchanged.
C11_UpdateChangesOnlySentFields ==
    /\ \A p \in DOMAIN db.projects, data \in ProjectUpdates, t \in Times :
           LET r == update_project(db, p, data, OwnerOf(p), t)
           IN  /\ r.status = HTTP_200_OK
               /\ OnlySent(db.projects[p], r.db.projects[p], DOMAIN data)
               /\ OthersKept(db.projects, r.db.projects, p)
               /\ r.db.users = db.users /\ r.db.issues = db.issues
               /\ r.db.seq = db.seq
               /\ r.body = ProjectResponse(r.db.projects[p])
    /\ \A i \in DOMAIN db.issues, data \in IssueUpdates, t \in Times :
           LET r == update_issue(db, i, data, ParentOwner(i), t)
           IN  /\ r.status = HTTP_200_OK
               /\ OnlySent(db.issues[i], r.db.issues[i], DOMAIN data)
               /\ OthersKept(db.issues, r.db.issues, i)
               /\ r.db.users = db.users /\ r.db.projects = db.projects
               /\ r.db.seq = db.seq
               /\ r.body = IssueResponse(r.db.issues[i])

\* C11 happens: an issue created with the defaults and a description-less
\* payload was set to Closed by an update and kept its priority, while
\* another issue is stored.
C11_Witness ==
    /\ resp.op = "update_issue"
    /\ resp.status = HTTP_200_OK
    /\ resp.body.status = "Closed"
    /\ resp.body.priority = "Medium"
    /\ resp.body.title = "Bug"
    /\ Cardinality(DOMAIN db.issues) = MaxIssues

\* C12: update tells a field left out from a field sent as null: the
\* first is left alone, the second is applied, so that on an entity with a
\* description PATCH {description: null} and PATCH {} end in different
\* states.
C12_NullAppliedAbsentKept ==
    /\ \A p \in DOMAIN db.projects :
           db.projects[p].description # NULL =>
               LET sent == update_project(db, p, [description |-> NULL], OwnerOf(p), now)
                   absent == update_project(db, p, NoFields, OwnerOf(p), now)
               IN  /\ absent.db.projects[p].description = db.projects[p].description
                   /\ sent.db.projects[p].description = NULL
                   /\ sent.db # absent.db
    /\ \A i \in DOMAIN db.issues :
           db.issues[i].description # NULL =>
               LET sent == update_issue(db, i, [description |-> NULL], ParentOwner(i), now)
                   absent == update_issue(db, i, NoFields, ParentOwner(i), now)
               IN  /\ absent.db.issues[i].description = db.issues[i].description
                   /\ sent.db.issues[i].description = NULL
                   /\ sent.db # absent.db

C14_UpdateRefreshesUpdatedAt ==
    /\ \A p \in DOMAIN db.projects, data \in ProjectUpdates, t \in Times :
           LET r == update_project(db, p, data, OwnerOf(p), t)
           IN  r.status = HTTP_200_OK => r.db.projects[p].updated_at = t
    /\ \A i \in DOMAIN db.issues, data \in IssueUpdates, t \in Times :
           LET r == update_issue(db, i, data, ParentOwner(i), t)
           IN  r.status = HTTP_200_OK => r.db.issues[i].updated_at = t

\* C15: create_issue stores status Open and priority Medium when the
\* payload leaves them out and the supplied values when it supplies them;
\* status and priority of every stored issue are members of IssueStatus and
\* IssuePriority, never null.
C15_IssueDefaultsAndEnums ==
    /\ \A i \in DOMAIN db.issues :
           /\ db.issues[i].status \in IssueStatus
           /\ db.issues[i].priority \in IssuePriority
    /\ \A p \in DOMAIN db.projects, payload \in IssueCreatePayloads :
           LET r == create_issue(db, p, IssueCreate(payload), OwnerOf(p), now)
               stored == r.db.issues[r.body.id]
           IN  /\ r.status = HTTP_201_CREATED
               /\ r.body.id \notin DOMAIN db.issues
               /\ stored.status = IF "status" \in DOMAIN payload
                                  THEN payload.status ELSE "Open"
               /\ stored.priority = IF "priority" \in DOMAIN payload
                                    THEN payload.priority ELSE "Medium"
               /\ r.body.status = stored.status
               /\ r.body.priority = stored.priority
    /\ \A i \in DOMAIN db.issues, data \in IssueUpdates :
           LET r == update_issue(db, i, data, ParentOwner(i), now)
           IN  /\ r.db.issues[i].status \in IssueStatus
               /\ r.db.issues[i].priority \in IssuePriority

\* C15 happens: an issue created from a payload without status and priority
\* was answered with Open and Medium, while an issue created with Closed
\* and High is stored.
C15_Witness ==
    /\ resp.op = "create_issue"
    /\ resp.status = HTTP_201_CREATED
    /\ resp.body.status = "Open"
    /\ resp.body.priority = "Medium"
    /\ \E i \in DOMAIN db.issues :
           db.issues[i].status = "Closed" /\ db.issues[i].priority = "High"

\* C16: GET /projects by user U lists exactly the stored projects whose
\* created_by is U.id: every project of U, and no project of anybody else.
C16_ProjectListingByOwner ==
    \A user \in StoredUsers :
        LET r == route_get_projects(db, HeaderOf(user), now)
        IN  /\ r.status = HTTP_200_OK
            /\ r.db = db
            /\ \A p \in DOMAIN db.projects :
                   ProjectResponse(db.projects[p]) \in r.body.items
                       <=> db.projects[p].created_by = user.id
            /\ \A project \in r.body.items :
                   /\ project.id \in DOMAIN db.projects
                   /\ project = ProjectResponse(db.projects[project.id])

\* C16 happens: a listing was answered with some but not all of the stored
\* projects.
C16_Witness ==
    /\ resp.op = "get_projects"
    /\ resp.status = HTTP_200_OK
    /\ resp.body.items # {}
    /\ Cardinality(resp.body.items) < Cardinality(DOMAIN db.projects)

\* C17: get_project_issues(P, status, priority) by P's owner lists exactly
\* the stored issues of P that have the status when one is given and the
\* priority when one is given; a filter left out excludes nothing.
C17_IssueListingFilters ==
    \A p \in DOMAIN db.projects :
        \A status \in IssueStatus \cup {NULL}, priority \in IssuePriority \cup {NULL} :
            LET r == get_project_issues(db, p, OwnerOf(p), status, priority)
            IN  /\ r.status = HTTP_200_OK
                /\ r.db = db
                /\ \A i \in DOMAIN db.issues :
                       IssueResponse(db.issues[i]) \in r.body.items
                           <=> /\ db.issues[i].project_id = p
                               /\ status # NULL => db.issues[i].status = status
                               /\ priority # NULL => db.issues[i].priority = priority
                /\ \A issue \in r.body.items :
                       /\ issue.id \in DOMAIN db.issues
                       /\ issue = IssueResponse(db.issues[issue.id])

\* C17 happens: a listing with a filter was answered with one issue of a
\* project while the project has another issue, which the filter left out.
C17_Witness ==
    /\ resp.op = "get_project_issues"
    /\ resp.status = HTTP_200_OK
    /\ \E issue \in resp.body.items :
           \E i \in DOMAIN db.issues :
               /\ db.issues[i].project_id = issue.project_id
               /\ IssueResponse(db.issues[i]) \notin resp.body.items

\* Table `after` is table `before` with the one new row `id`.
OneMore(before, after, id) ==
    /\ id \notin DOMAIN before
    /\ DOMAIN after = (DOMAIN before) \cup {id}
    /\ \A old \in DOMAIN before : after[old] = before[old]

\* C18: POST /projects by any authenticated user answers 201 and stores one
\* new project with created_by = U.id; a successful create_issue on P by U
\* stores one new issue with project_id = P and created_by = U.id; every
\* stored project has its one owner among the users, every stored issue its
\* one project and its one creator.
C18_CreatorsRecorded ==
    /\ \A p \in DOMAIN db.projects : db.projects[p].created_by \in DOMAIN db.users
    /\ \A i \in DOMAIN db.issues :
           /\ db.issues[i].project_id \in DOMAIN db.projects
           /\ db.issues[i].created_by \in DOMAIN db.users
    /\ \A user \in StoredUsers, data \in ProjectCreates :
           LET r == route_create_project(db, HeaderOf(user), data, now)
           IN  /\ r.status = HTTP_201_CREATED
               /\ OneMore(db.projects, r.db.projects, r.body.id)
               /\ r.db.projects[r.body.id].created_by = user.id
               /\ r.body = ProjectResponse(r.db.projects[r.body.id])
               /\ r.db.users = db.users /\ r.db.issues = db.issues
    /\ \A user \in StoredUsers, p \in 1..(MaxProjects + 1), data \in IssueCreates :
           LET r == route_create_issue(db, HeaderOf(user), p, data, now)
           IN  IF r.status = HTTP_201_CREATED
               THEN /\ OneMore(db.issues, r.db.issues, r.body.id)
                    /\ r.db.issues[r.body.id].project_id = p
                    /\ r.db.issues[r.body.id].created_by = user.id
                    /\ r.body = IssueResponse(r.db.issues[r.body.id])
                    /\ r.db.users = db.users /\ r.db.projects = db.projects
               ELSE r.db = db

\* C18 happens: the second registered user created an issue in a project of
\* their own, while the first user owns a project too.
C18_Witness ==
    /\ resp.op = "create_issue"
    /\ resp.status = HTTP_201_CREATED
    /\ resp.body.created_by = NumEmails
    /\ db.projects[resp.body.project_id].created_by = NumEmails
    /\ \E p \in DOMAIN db.projects : db.projects[p].created_by # NumEmails

\* The statuses of NotFound, Forbidden, Conflict and Unauthorized.
Refusals ==
    {HTTP_404_NOT_FOUND, HTTP_403_FORBIDDEN, HTTP_409_CONFLICT, HTTP_401_UNAUTHORIZED}

\* The service operations `user` can call: those that address no entity,
\* those on project id p and those on issue id i, with every payload and
\* filter of the model, each as Brief reads it.
UserCalls(user) ==
    {Brief(get_user_projects(db, user))}
      \cup {Brief(create_project(db, data, user, now)) : data \in ProjectCreates}

ProjectCalls(p, user) ==
    {Brief(get_project(db, p, user)), Brief(delete_project(db, p, user))}
      \cup {Brief(update_project(db, p, data, user, now)) : data \in ProjectUpdates}
      \cup {Brief(get_project_issues(db, p, user, status, priority)) :
               status \in StatusFilters, priority \in PriorityFilters}
      \cup {Brief(create_issue(db, p, data, user, now)) : data \in IssueCreates}

IssueCalls(i, user) ==
    {Brief(get_issue(db, i, user)), Brief(delete_issue(db, i, user))}
      \cup {Brief(update_issue(db, i, data, user, now)) : data \in IssueUpdates}

\* register and login with every input of the model.
AuthCalls ==
    {Brief(register(db, data, salt, now)) : data \in UserCreates, salt \in Salts}
      \cup {Brief(login(db, email, password, now)) :
               email \in Emails, password \in Passwords}

\* C19: a service operation that ends in NotFound, Forbidden, Conflict or
\* Unauthorized has written nothing: users, projects and issues are exactly
\* as before the call, and the response has no body.
C19_RefusalsWriteNothing ==
    /\ \A r \in AuthCalls : r[1] \in Refusals => r[3] /\ r[4]
    /\ \A user \in StoredUsers :
           /\ \A r \in UserCalls(user) : r[1] \in Refusals => r[3] /\ r[4]
           /\ \A p \in 1..(MaxProjects + 1) :
                  \A r \in ProjectCalls(p, user) : r[1] \in Refusals => r[3] /\ r[4]
           /\ \A i \in 1..(MaxIssues + 1) :
                  \A r \in IssueCalls(i, user) : r[1] \in Refusals => r[3] /\ r[4]

\* C19 happens: a request to delete a project was answered Forbidden, and
\* nothing that was ever stored is gone, issues included.
C19_Witness ==
    /\ resp.op = "delete_project"
    /\ resp.status = HTTP_403_FORBIDDEN
    /\ db.issues # EmptyTable
    /\ DeletedProjects(db) = {}
    /\ DeletedIssues(db) = {}

\* C20: for every plaintext p, verify(p, hash(p)) is true, verify(q, hash(p))
\* is false for every q other than p, and two calls of hash(p) return two
\* different digests, each of which verifies p.
C20_HashVerifyRoundTrip ==
    \A k \in 1..Len(lab.hashed) :
        LET p == lab.hashed[k].plain_password
            digest == lab.hashed[k].hashed_password
        IN  /\ verify(p, digest)
            /\ \A q \in Plaintexts : q # p => ~verify(q, digest)
            /\ \A j \in 1..Len(lab.hashed) :
                   (j # k /\ lab.hashed[j].plain_password = p) =>
                       lab.hashed[j].hashed_password # digest

\* What holds of C20: the same with q ranging over the plaintexts whose
\* first 72 bytes differ from those of p.
C20_RoundTripUpToTruncation ==
    \A k \in 1..Len(lab.hashed) :
        LET p == lab.hashed[k].plain_password
            digest == lab.hashed[k].hashed_password
        IN  /\ verify(p, digest)
            /\ \A q \in Plaintexts : q.head # p.head => ~verify(q, digest)
            /\ \A j \in 1..Len(lab.hashed) :
                   (j # k /\ lab.hashed[j].plain_password = p) =>
                       lab.hashed[j].hashed_password # digest

\* A database whose one user has the stored digest hashed_password.
StoredWith(hashed_password) ==
    [EmptyDb EXCEPT !.users = 1 :> [id |-> 1, name |-> "Ann", email |-> 1,
                                    hashed_password |-> hashed_password,
                                    created_at |-> 0, updated_at |-> NullTime],
                    !.seq.users = 2]

\* C21: verify never raises; for a stored digest that is malformed or of no
\* recognised scheme it returns false, and a login against a user with such
\* a digest is answered Unauthorized, not with a server error.
C21_VerifyNeverRaises ==
    lab.verified # None =>
        /\ ~lab.verified.raised
        /\ ~identify(lab.verified.hashed_password) =>
               /\ ~lab.verified.result
               /\ login(StoredWith(lab.verified.hashed_password), 1,
                        lab.verified.plain_password, now).status
                      = HTTP_401_UNAUTHORIZED

\* C22: the token create_token returns carries exp = issue time + the TTL
\* the caller passed, for every TTL passed, a zero-length one included; the
\* configured default TTL is used only when no TTL is passed.
C22_ExpiryIsIssuePlusTTL ==
    lab.token # None =>
        lab.token.payload.exp =
            IF lab.expires_delta = None
            THEN lab.issued_at + ACCESS_TOKEN_EXPIRE_MINUTES * SecondsPerMinute
            ELSE lab.issued_at + lab.expires_delta.seconds

\* The request in slot r has its outcome.
Answered(r) == calls[r].outcome # None

\* Slots r1 and r2 hold two delete requests for the same row that have both
\* passed the existence and ownership reads.  A row that is gone does not
\* come back, so both passed them before either removed the row.
BothDeleting(r1, r2) ==
    /\ r1 # r2
    /\ calls[r1].op \in {"delete_project", "delete_issue"}
    /\ calls[r2].op = calls[r1].op
    /\ calls[r2].args = calls[r1].args
    /\ calls[r1].authorized
    /\ calls[r2].authorized

\* C23: of two delete requests of the owner for the same project (or the
\* same issue) that both pass the existence and ownership reads before
\* either removes the row, exactly one reports success and the other gets
\* NotFound; neither ends in a server error.
C23_OneDeleteSucceeds ==
    \A r1, r2 \in Requests :
        BothDeleting(r1, r2) /\ Answered(r1) /\ Answered(r2) =>
            {calls[r1].outcome.status, calls[r2].outcome.status}
                = {HTTP_204_NO_CONTENT, HTTP_404_NOT_FOUND}

\* What does hold of such a pair: neither ends in a server error, and the
\* row is gone.
C23_BothDeletesAnswerNoContent ==
    \A r1, r2 \in Requests :
        BothDeleting(r1, r2) /\ Answered(r1) /\ Answered(r2) =>
            /\ calls[r1].outcome.status = HTTP_204_NO_CONTENT
            /\ calls[r2].outcome.status = HTTP_204_NO_CONTENT
            /\ get_by_id(db, Target(calls[r1]).model, Target(calls[r1]).id) = None

\* The issue a request has read, or its parent project, is no longer stored.
Gone(issue) ==
    \/ issue.id \notin DOMAIN db.issues
    \/ issue.project_id \notin DOMAIN db.projects

\* C24: when get_issue, update_issue or delete_issue has read an issue, and
\* the issue or its parent project is deleted by another request before the
\* parent project is resolved or the write is applied, the operation ends
\* in NotFound: not in a server error, and not by returning or writing the
\* row it read.
C24_DeleteThenActFailsClosed ==
    [][\A r \in Requests :
          (/\ calls[r].op \in {"get_issue", "update_issue", "delete_issue"}
           /\ calls[r].issue # None
           /\ ~Answered(r)
           /\ Gone(calls[r].issue)
           /\ calls'[r].outcome # None)
          => calls'[r].outcome.status = HTTP_404_NOT_FOUND]_vars

\* No two stored users have the same email.
UniqueEmails ==
    \A u1, u2 \in DOMAIN db.users :
        db.users[u1].email = db.users[u2].email => u1 = u2

\* C25: under any interleaving of register requests for the same email, two
\* that both pass the existence check before either inserts included, at
\* most one user with that email is stored, exactly one request succeeds
\* and every other ends in Conflict.
C25_OneRegistrationPerEmail ==
    /\ UniqueEmails
    /\ \A r \in Requests :
          calls[r].op = "register" /\ Answered(r) =>
              calls[r].outcome.status \in {HTTP_201_CREATED, HTTP_409_CONFLICT}
    /\ \A r1, r2 \in Requests :
          (/\ r1 # r2
           /\ calls[r1].op = "register" /\ calls[r2].op = "register"
           /\ calls[r1].args.email = calls[r2].args.email
           /\ Answered(r1) /\ Answered(r2))
          => ~(/\ calls[r1].outcome.status = HTTP_201_CREATED
               /\ calls[r2].outcome.status = HTTP_201_CREATED)

\* C26: in every reachable state, those reached when create_issue on a
\* project interleaves with delete_project of it between the ownership
\* check and the INSERT included, the project_id of every stored issue is
\* the id of a stored project.
C26_NoOrphanIssue ==
    \A i \in DOMAIN db.issues : db.issues[i].project_id \in DOMAIN db.projects

\* A create_issue passed the ownership check, the project was deleted by
\* another request, and the INSERT was refused.
C26_Witness ==
    \E r1, r2 \in Requests :
        /\ calls[r1].op = "create_issue"
        /\ calls[r1].authorized
        /\ Answered(r1)
        /\ calls[r1].outcome.status = HTTP_500_INTERNAL_SERVER_ERROR
        /\ calls[r2].op = "delete_project"
        /\ Answered(r2)
        /\ calls[r2].outcome.status = HTTP_204_NO_CONTENT
        /\ calls[r1].args.project_id \notin DOMAIN db.projects
        /\ db.issues = EmptyTable

OpenSessions == {r \in Requests : calls[r].session = "open"}

InFlight == {r \in Requests : calls[r].pc \notin {"idle", "done"}}

\* C27: every session get_db opens for a request is closed, exactly once,
\* on every way out of the request, by return or by exception; at no time
\* are there more open sessions than requests in flight.
C27_SessionsClosed ==
    /\ [](\A r \in Requests :
             /\ calls[r].closes <= 1
             /\ calls[r].pc = "done" =>
                    calls[r].session = "closed" /\ calls[r].closes = 1)
    /\ [](Cardinality(OpenSessions) <= Cardinality(InFlight))
    /\ \A r \in Requests :
          (calls[r].session = "open") ~> (calls[r].session = "closed")

\* A request whose handler raised an exception that is no HTTPException has
\* ended with its session closed, while another is in flight with an open
\* session.
C27_Witness ==
    \E r1, r2 \in Requests :
        /\ calls[r1].pc = "done"
        /\ calls[r1].outcome.status = HTTP_500_INTERNAL_SERVER_ERROR
        /\ calls[r1].session = "closed"
        /\ calls[r1].closes = 1
        /\ calls[r2].session = "open"

\* C28: in every state the API operations reach, the created_by of every
\* stored issue is the created_by of its parent project.
C28_IssueCreatorIsProjectOwner ==
    \A i \in DOMAIN db.issues :
        /\ db.issues[i].project_id \in DOMAIN db.projects
        /\ db.issues[i].created_by = db.projects[db.issues[i].project_id].created_by

\* Two users own a project each, an issue is stored, and a create_issue by
\* a user who does not own the project has just been refused.
C28_Witness ==
    /\ resp.op = "create_issue"
    /\ resp.status = HTTP_403_FORBIDDEN
    /\ db.issues # EmptyTable
    /\ \E p, q \in DOMAIN db.projects :
          db.projects[p].created_by # db.projects[q].created_by

\* The stored users a project admits.
ProjectUsers(d, p) ==
    {u \in DOMAIN d.users : get_project(d, p, d.users[u]).status = HTTP_200_OK}

\* The stored users an issue admits.
IssueUsers(d, i) ==
    {u \in DOMAIN d.users : get_issue(d, i, d.users[u]).status = HTTP_200_OK}

\* C29: no operation changes the created_by of a stored project, or the
\* project_id or created_by of a stored issue; the users a project or an
\* issue admits are the same from its creation to its deletion.
C29_OwnershipChainImmutable ==
    [][/\ \A p \in (DOMAIN db.projects) \cap (DOMAIN db'.projects) :
             /\ db'.projects[p].created_by = db.projects[p].created_by
             /\ ProjectUsers(db', p) = ProjectUsers(db, p)
       /\ \A i \in (DOMAIN db.issues) \cap (DOMAIN db'.issues) :
             /\ db'.issues[i].project_id = db.issues[i].project_id
             /\ db'.issues[i].created_by = db.issues[i].created_by
             /\ IssueUsers(db', i) = IssueUsers(db, i)]_vars

\* An issue and a project of another owner have been updated, with two
\* users stored.
C29_Witness ==
    /\ resp.op = "update_issue"
    /\ resp.status = HTTP_200_OK
    /\ resp.body.status = "Closed"
    /\ \E p \in DOMAIN db.projects :
          /\ db.projects[p].name = "P2"
          /\ db.projects[p].created_by # resp.body.created_by

\* C30: for every token the authentication dependency accepts, the user it
\* resolves from the token's sub has the id the token carries as user_id: a
\* token login issued to one user never authenticates a request as another
\* user.  The tokens the dependency accepts are signed with the server's
\* key, and login alone signs tokens; a user once stored keeps its id and
\* email and is never removed, and emails are unique, so what holds of a
\* token when login issues it holds of it in every later state.
C30_TokenAuthenticatesItsUser ==
    /\ [](/\ UniqueEmails
          /\ \A u \in DOMAIN db.users : db.users[u].id = u
          /\ \A email \in Emails, password \in Passwords, t \in Times :
                LET issued == login(db, email, password, now)
                IN  issued.status = HTTP_200_OK =>
                        LET access_token == issued.body.access_token
                            current_user == Auth(db, Bearer(access_token), t)
                        IN  /\ Authenticated(current_user)
                            /\ current_user.body.email = email
                            /\ current_user.body.id
                                   = decode_token(access_token, t).user_id)
    /\ [][\A u \in DOMAIN db.users :
             /\ u \in DOMAIN db'.users
             /\ db'.users[u].id = db.users[u].id
             /\ db'.users[u].email = db.users[u].email]_vars

\* With two users stored, login has issued a token to the second, and the
\* dependency resolves it to the second.
C30_Witness ==
    /\ Cardinality(DOMAIN db.users) = 2
    /\ resp.op = "login"
    /\ resp.status = HTTP_200_OK
    /\ decode_token(resp.body.access_token, now).user_id = 2
    /\ Auth(db, Bearer(resp.body.access_token), now).body.id = 2

=============================================================================
